---- MODULE Spec2Model ----
(***************************************************************************)
(* A model of topik's project/state manager (fileio/project.py), its       *)
(* in-memory store (fileio/out_memory.py) and the vectorizer registry      *)
(* (vectorizers/_registry.py).                                             *)
(*                                                                         *)
(* Python values are modelled by what the interpreter does with them:      *)
(* strings are TLA+ strings, a dict is a function over its keys, a         *)
(* generator is the sequence of steps it will take when consumed, and a    *)
(* raised exception is the name of its class.                              *)
(***************************************************************************)
EXTENDS Integers, Sequences, FiniteSets, TLC

VARIABLES
  corpus,               \* InMemoryOutput.corpus
  hash_field,           \* InMemoryOutput.hash_field
  tables,               \* the store's mapping attributes, by attribute name
  corpus_filter,        \* TopikProject.corpus_filter
  _tokenizer_id,        \* TopikProject._tokenizer_id
  _vectorizer_id,       \* TopikProject._vectorizer_id
  _model_id,            \* TopikProject._model_id
  selected,             \* attributes created on the project by select_*
  res,                  \* what the last call did: returned or raised
  assigned,             \* history: what was last assigned under each table key
  callA, callB,         \* two fingerprinted stage invocations
  registered_vectorizers, \* items of the module-level VectorizerRegistry
  scope,                \* a "with TopikProject(...) as project:" block
  imported,             \* history kept by StoreImport: the items it stored
  views                 \* generator objects returned by get_filtered_data

vars == << corpus, hash_field, tables, corpus_filter, _tokenizer_id,
           _vectorizer_id, _model_id, selected, res, assigned, callA, callB,
           registered_vectorizers, scope, imported, views >>

storeVars == << corpus, hash_field, tables, assigned >>
projectVars == << corpus_filter, _tokenizer_id, _vectorizer_id, _model_id, selected >>
fpVars == << callA, callB >>
regVars == << registered_vectorizers >>
extVars == << scope, imported, views >>

\* Python's None
None == "None"
\* an attribute that was never assigned
Unset == "unset"

(***************************************************************************)
(* Bounds                                                                  *)
(***************************************************************************)
\* keyword parameters per stage invocation
MaxKwargs == 2
\* values a lazy sequence handed to the store yields
MaxLen == 2
\* items per import_from_iterable call
MaxBatch == 1
\* items imported into one store over its life
MaxImported == 3

(***************************************************************************)
(* Keyword parameters and _get_parameters_string                           *)
(***************************************************************************)
\* keyword names, listed in Python's string order (the order sorted() uses)
ParamNames == << "freq_min", "min_length", "stopwords" >>

\* parameter values: the int 1 and the str "1"
ParamValues ==
  { [t |-> "int", n |-> 1, s |-> ""],
    [t |-> "str", n |-> 0, s |-> "1"] }

Range(f) == { f[i] : i \in DOMAIN f }

\* a call's **kwargs: (name, value) pairs in call-site order, names distinct
KwargsOfLen(n) ==
  { kw \in [1..n -> Range(ParamNames) \X ParamValues] :
      \A i, j \in 1..n : i # j => kw[i][1] # kw[j][1] }

AllKwargs == UNION { KwargsOfLen(n) : n \in 0..MaxKwargs }

\* the dict the callee receives
KwargsDict(kw) == Range(kw)

\* '{}'.format(val): str() of the value
Format(v) == IF v.t = "int" THEN ToString(v.n) ELSE v.s

\* position of a keyword name in Python's string order
KeyRank(k) == CHOOSE i \in 1..Len(ParamNames) : ParamNames[i] = k

\* insert one item into a list sorted by key
RECURSIVE InsertSorted(_, _)
InsertSorted(item, s) ==
  IF s = << >> THEN << item >>
  ELSE IF KeyRank(item[1]) <= KeyRank(Head(s)[1])
       THEN << item >> \o s
       ELSE << Head(s) >> \o InsertSorted(item, Tail(s))

RECURSIVE SortItems(_)
SortItems(items) ==
  IF items = << >> THEN << >>
  ELSE InsertSorted(Head(items), SortItems(Tail(items)))

\* a faulty variant of sorted(): the items in call-site order
UnsortedItems(items) == items

\* sorted(kwargs.items())
sorted(items) == SortItems(items)

\* ''.join('{}={}_'.format(key, val) for key, val in ...)
RECURSIVE JoinPairs(_)
JoinPairs(items) ==
  IF items = << >> THEN ""
  ELSE Head(items)[1] \o "=" \o Format(Head(items)[2]) \o "_"
         \o JoinPairs(Tail(items))

\* id[:-1]
DropLast(s) == IF Len(s) = 0 THEN s ELSE SubSeq(s, 1, Len(s) - 1)

_get_parameters_string(kw) == DropLast(JoinPairs(sorted(kw)))

\* "tk_{method}_{params}".format(...)
TokenizeId(method, kw) == "tk_" \o method \o "_" \o _get_parameters_string(kw)

\* "_".join([method, _get_parameters_string(**kwargs)])
VectorizeId(method, kw) == method \o "_" \o _get_parameters_string(kw)

\* "_".join([model_name, _get_parameters_string(**kwargs)])
ModelId(model_name, kw) == model_name \o "_" \o _get_parameters_string(kw)

StageKinds == { "tokenize", "vectorize", "run_model" }

StageId(stage, method, kw) ==
  CASE stage = "tokenize" -> TokenizeId(method, kw)
    [] stage = "vectorize" -> VectorizeId(method, kw)
    [] stage = "run_model" -> ModelId(method, kw)

\* method names handed to a stage
MethodNames == { "simple", "entities" }

(***************************************************************************)
(* Fingerprinting two stage invocations                                    *)
(***************************************************************************)
NoCall == [stage |-> "none", method |-> "", kwargs |-> << >>, done |-> FALSE,
           params |-> "", id |-> ""]

FpInputs(stage) ==
  { [stage |-> stage, method |-> m, kwargs |-> kw, done |-> FALSE,
     params |-> "", id |-> ""] : m \in MethodNames, kw \in AllKwargs }

Fingerprinted(c) ==
  [c EXCEPT !.done = TRUE,
            !.params = _get_parameters_string(c.kwargs),
            !.id = StageId(c.stage, c.method, c.kwargs)]

(***************************************************************************)
(* Documents and the corpus (out_memory.py)                                *)
(***************************************************************************)
IntVal(n) == [t |-> "int", n |-> n, s |-> ""]
StrVal(s) == [t |-> "str", n |-> 0, s |-> s]
\* a datetime.date object: a value whose repr() is a constructor call
DateVal(n) == [t |-> "date", n |-> n, s |-> ""]

\* the documents of the model; Doc3 has no "text" and holds a date object
Doc1 == [id |-> IntVal(1), text |-> StrVal("cat dog"), year |-> IntVal(2000)]
Doc2 == [id |-> IntVal(2), text |-> StrVal("cat fish"), year |-> IntVal(2010)]
Doc3 == [id |-> IntVal(3), year |-> IntVal(2005), when |-> DateVal(2005)]

Docs == { Doc1, Doc2, Doc3 }

\* the elements an iterable can hold: a dict, a plain string, an int (a key
\* of a dict that is iterated), a tuple (a reader's (id, document) pair)
DictItem(d) == [kind |-> "dict", d |-> d, v |-> IntVal(0)]
StrItem(s) == [kind |-> "str", d |-> << >>, v |-> StrVal(s)]
IntItem(n) == [kind |-> "int", d |-> << >>, v |-> IntVal(n)]
TupleItem(n, d) == [kind |-> "tuple", d |-> d, v |-> IntVal(n)]

\* hash(): an int hashes to itself; a str to a fixed number of its own
hash(v) == IF v.t = "int" THEN v.n ELSE 4 + Len(v.s)

\* GreedyDict(): the empty dict
EmptyDict == << >>

\* the store's corpus attribute: the GreedyDict of __init__, or whatever
\* object was assigned to it
DictCorpus(d) == [kind |-> "dict", d |-> d, raw |-> << >>]
RawCorpus(items) == [kind |-> "raw", d |-> EmptyDict, raw |-> items]

\* d[key] = value
DictSet(d, key, value) == (key :> value) @@ d

\* the keys of a dict in iteration order (fixed for given contents)
RECURSIVE KeysInOrder(_)
KeysInOrder(S) ==
  IF S = {} THEN << >>
  ELSE LET m == CHOOSE x \in S : \A y \in S : x <= y
       IN << m >> \o KeysInOrder(S \ {m})

\* iter(obj) as a list of items: a dict iterates over its keys
IterItems(c) ==
  IF c.kind = "dict"
  THEN LET ks == KeysInOrder(DOMAIN c.d) IN [i \in 1..Len(ks) |-> IntItem(ks[i])]
  ELSE c.raw

\* bool(obj) of a container
Truthy(c) == IF c.kind = "dict" THEN DOMAIN c.d # {} ELSE c.raw # << >>

\* a faulty variant of the for loop: an identifier already in the corpus
\* keeps its document
RECURSIVE ImportLoopKeepFirst(_, _, _)
ImportLoopKeepFirst(d, items, field_to_hash) ==
  IF items = << >> THEN [d |-> d, err |-> ""]
  ELSE LET item == Head(items)
           src == IF item.kind = "str" THEN (field_to_hash :> item.v) ELSE item.d
       IN IF item.kind \in { "int", "tuple" }
          THEN [d |-> d, err |-> "TypeError"]
          ELSE IF field_to_hash \notin DOMAIN src
          THEN [d |-> d, err |-> "KeyError"]
          ELSE ImportLoopKeepFirst(
                 IF hash(src[field_to_hash]) \in DOMAIN d THEN d
                 ELSE DictSet(d, hash(src[field_to_hash]), [_source |-> src]),
                 Tail(items), field_to_hash)

\* the for loop of import_from_iterable, from the state (corpus dict, error)
RECURSIVE ImportLoop(_, _, _)
ImportLoop(d, items, field_to_hash) ==
  IF items = << >> THEN [d |-> d, err |-> ""]
  ELSE LET item == Head(items)
           src == IF item.kind = "str" THEN (field_to_hash :> item.v) ELSE item.d
       IN IF item.kind \in { "int", "tuple" }
          THEN [d |-> d, err |-> "TypeError"]
          ELSE IF field_to_hash \notin DOMAIN src
          THEN [d |-> d, err |-> "KeyError"]
          ELSE ImportLoop(DictSet(d, hash(src[field_to_hash]), [_source |-> src]),
                          Tail(items), field_to_hash)

\* InMemoryOutput.import_from_iterable on a store whose corpus is a dict
import_from_iterable(c, hf, items, field_to_hash) ==
  IF field_to_hash = None
  THEN [corpus |-> c, hash_field |-> hf, err |-> "ValueError"]
  ELSE IF c.kind # "dict"
  THEN \* self.corpus[id] = ... on an object that is no mapping
       [corpus |-> c, hash_field |-> field_to_hash,
        err |-> IF items = << >> THEN "" ELSE "TypeError"]
  ELSE LET r == ImportLoop(c.d, items, field_to_hash)
       IN [corpus |-> DictCorpus(r.d), hash_field |-> field_to_hash, err |-> r.err]

(***************************************************************************)
(* Lazy sequences and GreedyDict (out_memory.py)                           *)
(***************************************************************************)
\* A value handed to a dict: a list, a generator object, or another one-shot
\* iterator. Consuming it yields vals in order and then raises err, if any.
Value(kind, vals, err) == [kind |-> kind, vals |-> vals, err |-> err]

\* [val for val in value]
ListOf(value) ==
  IF value.err # "" THEN [value |-> value, err |-> value.err]
  ELSE [value |-> Value("list", value.vals, ""), err |-> ""]

\* a faulty variant of __setitem__: the values read so far are stored when
\* the generator raises
SetItemPartial(d, key, value) ==
  IF value.kind = "generator"
  THEN [d |-> DictSet(d, key, Value("list", value.vals, "")), err |-> value.err]
  ELSE [d |-> DictSet(d, key, value), err |-> ""]

\* GreedyDict.__setitem__
GreedyDict__setitem__(d, key, value) ==
  IF value.kind = "generator"
  THEN LET l == ListOf(value)
       IN IF l.err # "" THEN [d |-> d, err |-> l.err]
          ELSE [d |-> DictSet(d, key, l.value), err |-> ""]
  ELSE [d |-> DictSet(d, key, value), err |-> ""]

\* iterating a stored value to its end: what the reader sees, and what is
\* left in the dict afterwards
ReadAll(cell) ==
  [seen |-> cell.vals,
   left |-> IF cell.kind = "list" THEN cell ELSE Value(cell.kind, << >>, "")]

(***************************************************************************)
(* Filtered views (out_memory.py)                                          *)
(***************************************************************************)
\* no filter: "" or None
NoFilter == [kind |-> "none", start |-> 0, end |-> 0, field |-> ""]

\* "{}<=int({}['_source']['{}'])<={}".format(start, "{}", filter_field, end)
DateFilter(start, end, filter_field) ==
  [kind |-> "date", start |-> start, end |-> end, field |-> filter_field]

\* repr() of a value: source text that evaluates to the value again, or a
\* call of a name the evaluating module does not define
repr(v) ==
  CASE v.t = "int" -> [text |-> ToString(v.n), literal |-> TRUE, v |-> v]
    [] v.t = "str" -> [text |-> "'" \o v.s \o "'", literal |-> TRUE, v |-> v]
    [] v.t = "date" -> [text |-> "datetime.date(" \o ToString(v.n) \o ", 1, 1)",
                        literal |-> FALSE, v |-> v]

\* int(x)
int(v) ==
  CASE v.t = "int" -> [n |-> v.n, err |-> ""]
    [] v.t = "str" -> [n |-> 0, err |-> "ValueError"]
    [] v.t = "date" -> [n |-> 0, err |-> "TypeError"]

\* eval(filter.format(doc)): the document is written out with repr() and
\* parsed back as part of the expression
EvalFilter(filter, doc) ==
  LET src == doc._source
  IN IF \E f \in DOMAIN src : ~repr(src[f]).literal
     THEN [ok |-> FALSE, err |-> "NameError"]
     ELSE IF filter.field \notin DOMAIN src
     THEN [ok |-> FALSE, err |-> "KeyError"]
     ELSE LET y == int(repr(src[filter.field]).v)
          IN IF y.err # "" THEN [ok |-> FALSE, err |-> y.err]
             ELSE [ok |-> filter.start <= y.n /\ y.n <= filter.end, err |-> ""]

\* the body of get_filtered_data over the remaining keys
RECURSIVE FilterLoop(_, _, _, _)
FilterLoop(d, keys, field_to_get, filter) ==
  IF keys = << >> THEN [vals |-> << >>, err |-> ""]
  ELSE LET doc == d[Head(keys)]
           t == IF filter.kind = "none" THEN [ok |-> TRUE, err |-> ""]
                ELSE EvalFilter(filter, doc)
       IN IF t.err # "" THEN [vals |-> << >>, err |-> t.err]
          ELSE IF ~t.ok THEN FilterLoop(d, Tail(keys), field_to_get, filter)
          ELSE IF field_to_get \notin DOMAIN doc._source
          THEN [vals |-> << >>, err |-> "KeyError"]
          ELSE LET rest == FilterLoop(d, Tail(keys), field_to_get, filter)
               IN [vals |-> << << Head(keys), doc._source[field_to_get] >> >>
                              \o rest.vals,
                   err |-> rest.err]

\* InMemoryOutput.get_filtered_data: a generator over self.corpus.items()
get_filtered_data(c, field_to_get, filter) ==
  IF c.kind # "dict" THEN Value("generator", << >>, "AttributeError")
  ELSE LET g == FilterLoop(c.d, KeysInOrder(DOMAIN c.d), field_to_get, filter)
       IN Value("generator", g.vals, g.err)

\* InMemoryOutput.get_date_filtered_data
get_date_filtered_data(c, field_to_get, start, end, filter_field) ==
  get_filtered_data(c, field_to_get, DateFilter(start, end, filter_field))

(***************************************************************************)
(* Stage functions                                                         *)
(***************************************************************************)
\* the token list of a text (tokenizers.simple)
Tokens(s) ==
  CASE s = "cat dog" -> << "cat", "dog" >>
    [] s = "cat fish" -> << "cat", "fish" >>
    [] OTHER -> << s >>

\* tokenizers.simple: for doc_id, text in corpus: yield doc_id, tokens(text)
RECURSIVE SimpleLoop(_)
SimpleLoop(pairs) ==
  IF pairs = << >> THEN [vals |-> << >>, err |-> ""]
  ELSE IF Head(pairs)[2].t # "str" THEN [vals |-> << >>, err |-> "TypeError"]
  ELSE LET rest == SimpleLoop(Tail(pairs))
       IN [vals |-> << << Head(pairs)[1], Tokens(Head(pairs)[2].s) >> >> \o rest.vals,
           err |-> rest.err]

simple(data) ==
  LET r == SimpleLoop(data.vals)
  IN Value("generator", r.vals, IF r.err # "" THEN r.err ELSE data.err)

\* tokenizers.entities: a generator function whose first step calls
\* _collect_entities(corpus), which calls corpus.get_generator_without_id()
entities(data) == Value("generator", << >>, "AttributeError")

\* the names registered as tokenizers, and one that is not
registered_tokenizers == { "simple", "entities" }
StageMethods == registered_tokenizers \cup { "nope" }

\* tokenizers.tokenize(corpus, method, **kwargs)
tokenizers_tokenize(data, method, kw) ==
  IF method \notin registered_tokenizers
  THEN [err |-> "KeyError", out |-> Value("list", << >>, "")]
  ELSE [err |-> "",
        out |-> IF method = "simple" THEN simple(data) ELSE entities(data)]

\* the names registered as transformers
registered_transformers == { "simple" }

\* the keyword parameters the project's stage calls are made with
StageKwargs == { << >>, << << "min_length", IntVal(1) >> >> }

(***************************************************************************)
(* VectorizerRegistry (vectorizers/_registry.py)                           *)
(***************************************************************************)
VectorizerNames == { "tfidf", "bag_of_words", "simple" }
VectorizerFns == { "f", "g" }

\* VectorizerRegistry(): __init__ points the new instance's __dict__ at the
\* shared state and runs dict.__init__ with no arguments; the items of a
\* dict are not in its __dict__, so the new dict has no items
VectorizerRegistry == EmptyDict

\* a registered function applied to (corpus, **kwargs)
Apply(fn, data, kw) == Value("generator", data.vals, data.err)

\* vectorizers.vectorize(corpus, method, **kwargs):
\*   VectorizerRegistry()[method](corpus, **kwargs)
vectorizers_vectorize(data, method, kw) ==
  LET registry == VectorizerRegistry
  IN IF method \notin DOMAIN registry
     THEN [err |-> "KeyError", fn |-> "", out |-> Value("list", << >>, "")]
     ELSE [err |-> "", fn |-> registry[method],
           out |-> Apply(registry[method], data, kw)]

(***************************************************************************)
(* TopikProject (project.py)                                               *)
(***************************************************************************)
\* the attributes of the store that hold a dict per stage
StoreTables == { "tokenized_corpora", "vectorized_corpora", "modeled_corpora" }
\* the attributes of the store that the project reads and writes
OutputAttrs == { "token_data", "tokenized_data", "vectorized_data", "model_data" }
TableAttrs == StoreTables \cup OutputAttrs

RetArg(op, status, id, value, arg) ==
  [op |-> op, status |-> status, id |-> id, value |-> value, arg |-> arg]

Ret(op, status, id, value) == RetArg(op, status, id, value, << >>)

\* d[key]
DictGet(d, key) ==
  IF key \in DOMAIN d THEN [err |-> "", cell |-> d[key]]
  ELSE [err |-> "KeyError", cell |-> Value("list", << >>, "")]

\* the properties tokenized_data, vectorized_data, model_output
tokenized_data == DictGet(tables["tokenized_data"], _tokenizer_id)
vectorized_data == DictGet(tables["vectorized_data"], _vectorizer_id)
model_output == DictGet(tables["model_data"], _model_id)

\* the property filtered_corpus
filtered_corpus == get_filtered_data(corpus, corpus_filter, NoFilter)

\* TopikProject.get_filtered_corpus_iterator
get_filtered_corpus_iterator(filter_expression) ==
  get_filtered_data(corpus,
                    IF filter_expression = None THEN corpus_filter
                    ELSE filter_expression,
                    NoFilter)

Fail(op, err, id) ==
  /\ res' = Ret(op, err, id, << >>)
  /\ UNCHANGED << storeVars, projectVars >>

\* a faulty variant of tokenize: the artifact is stored in the table of the
\* next stage
TokenizeIntoVectorized(method, kw) ==
  LET call == tokenizers_tokenize(filtered_corpus, method, kw)
      id == TokenizeId(method, kw)
      set == GreedyDict__setitem__(tables["vectorized_data"], id, call.out)
  IN IF call.err # "" THEN Fail("tokenize", call.err, id)
     ELSE IF set.err # "" THEN Fail("tokenize", set.err, id)
     ELSE /\ tables' = [tables EXCEPT !["vectorized_data"] = set.d]
          /\ _tokenizer_id' = id
          /\ res' = Ret("tokenize", "ok", id, << >>)
          /\ UNCHANGED << corpus, hash_field, assigned, corpus_filter,
                          _vectorizer_id, _model_id, selected >>

\* TopikProject.tokenize
tokenize(method, kw) ==
  LET call == tokenizers_tokenize(filtered_corpus, method, kw)
      id == TokenizeId(method, kw)
      set == GreedyDict__setitem__(tables["token_data"], id, call.out)
  IN IF call.err # "" THEN Fail("tokenize", call.err, id)
     ELSE IF set.err # ""
     THEN /\ tables' = [tables EXCEPT !["token_data"] = set.d]
          /\ res' = Ret("tokenize", set.err, id, << >>)
          /\ UNCHANGED << corpus, hash_field, assigned, projectVars >>
     ELSE /\ tables' = [tables EXCEPT !["token_data"] = set.d]
          /\ _tokenizer_id' = id
          /\ res' = Ret("tokenize", "ok", id, << >>)
          /\ UNCHANGED << corpus, hash_field, assigned, corpus_filter,
                          _vectorizer_id, _model_id, selected >>

\* TopikProject.transform: self.tokenizer_id is no attribute of the project
transform(method, kw) ==
  /\ res' = RetArg("transform",
                   IF method \notin registered_transformers THEN "KeyError"
                   ELSE "AttributeError",
                   "", << >>, << method, kw >>)
  /\ UNCHANGED << storeVars, projectVars >>

\* TopikProject.vectorize
vectorize(method, kw) ==
  LET data == tokenized_data
      call == vectorizers_vectorize(data.cell, method, kw)
      id == VectorizeId(method, kw)
      set == GreedyDict__setitem__(tables["vectorized_data"], id, call.out)
  IN IF data.err # "" THEN Fail("vectorize", data.err, id)
     ELSE IF call.err # "" THEN Fail("vectorize", call.err, id)
     ELSE IF set.err # ""
     THEN /\ tables' = [tables EXCEPT !["vectorized_data"] = set.d]
          /\ res' = Ret("vectorize", set.err, id, << >>)
          /\ UNCHANGED << corpus, hash_field, assigned, projectVars >>
     ELSE /\ tables' = [tables EXCEPT !["vectorized_data"] = set.d]
          /\ _vectorizer_id' = id
          /\ res' = Ret("vectorize", "ok", id, << >>)
          /\ UNCHANGED << corpus, hash_field, assigned, corpus_filter,
                          _tokenizer_id, _model_id, selected >>

\* models.run_model(data, model_name, **kwargs)
models_run_model(data, model_name, kw) ==
  IF model_name \notin { "lda", "plsa" }
  THEN [err |-> "KeyError", out |-> Value("list", << >>, "")]
  ELSE [err |-> "", out |-> Value("list", data.vals, "")]

\* TopikProject.run_model
run_model(model_name, kw) ==
  LET data == vectorized_data
      call == models_run_model(data.cell, model_name, kw)
      id == ModelId(model_name, kw)
      set == GreedyDict__setitem__(tables["model_data"], id, call.out)
  IN IF data.err # "" THEN Fail("run_model", data.err, id)
     ELSE IF call.err # "" THEN Fail("run_model", call.err, id)
     ELSE IF set.err # ""
     THEN /\ tables' = [tables EXCEPT !["model_data"] = set.d]
          /\ res' = Ret("run_model", set.err, id, << >>)
          /\ UNCHANGED << corpus, hash_field, assigned, projectVars >>
     ELSE /\ tables' = [tables EXCEPT !["model_data"] = set.d]
          /\ _model_id' = id
          /\ res' = Ret("run_model", "ok", id, << >>)
          /\ UNCHANGED << corpus, hash_field, assigned, corpus_filter,
                          _tokenizer_id, _vectorizer_id, selected >>

\* TopikProject.visualize
visualize(model_id, kw) ==
  LET model == IF model_id \in { None, "" } THEN model_output
               ELSE DictGet(tables["model_data"], model_id)
  IN IF model.err # "" THEN Fail("visualize", model.err, model_id)
     ELSE /\ res' = Ret("visualize", "ok", model_id, model.cell.vals)
          /\ UNCHANGED << storeVars, projectVars >>

\* TopikProject.select_tokenized_data: self.tokenizer_ids is no attribute of
\* the project
select_tokenized_data(id) == Fail("select_tokenized_data", "AttributeError", id)

\* TopikProject.select_vectorized_data
select_vectorized_data(id) ==
  IF id \in DOMAIN tables["vectorized_data"]
  THEN /\ selected' = [selected EXCEPT !.selected_vectorizer = id]
       /\ res' = Ret("select_vectorized_data", "ok", id, << >>)
       /\ UNCHANGED << storeVars, corpus_filter, _tokenizer_id, _vectorizer_id,
                       _model_id >>
  ELSE Fail("select_vectorized_data", "ValueError", id)

\* TopikProject.select_model_data
select_model_data(id) ==
  IF id \in DOMAIN tables["model_data"]
  THEN /\ selected' = [selected EXCEPT !.selected_model = id]
       /\ res' = Ret("select_model_data", "ok", id, << >>)
       /\ UNCHANGED << storeVars, corpus_filter, _tokenizer_id, _vectorizer_id,
                       _model_id >>
  ELSE Fail("select_model_data", "ValueError", id)

\* reading one of the three data properties
read_property(name) ==
  LET got == CASE name = "tokenized_data" -> tokenized_data
               [] name = "vectorized_data" -> vectorized_data
               [] name = "model_output" -> model_output
  IN IF got.err # "" THEN Fail(name, got.err, "")
     ELSE /\ res' = Ret(name, "ok", "", got.cell.vals)
          /\ UNCHANGED << storeVars, projectVars >>

\* the reader's output for a source: (id, document) pairs
Sources == { << >>, << TupleItem(1, Doc1), TupleItem(2, Doc2) >> }

\* TopikProject.read_input: self.output.corpus = read_input(...)
read_input(source) ==
  /\ corpus' = RawCorpus(source)
  /\ res' = Ret("read_input", "ok", "", << >>)
  /\ UNCHANGED << hash_field, tables, assigned, projectVars >>

\* the iterables handed to import_from_iterable: lists of documents
Batches ==
  UNION { [1..n -> { DictItem(d) : d \in Docs }] : n \in 1..MaxBatch }

\* a call of output.import_from_iterable(iterable, field_to_hash)
import(items, field_to_hash) ==
  LET r == import_from_iterable(corpus, hash_field, items, field_to_hash)
  IN /\ corpus' = r.corpus
     /\ hash_field' = r.hash_field
     /\ res' = Ret("import_from_iterable", IF r.err = "" THEN "ok" ELSE r.err,
                   "", << >>)
     /\ UNCHANGED << tables, assigned, projectVars >>

\* project.corpus_filter = f
set_corpus_filter(f) ==
  /\ corpus_filter' = f
  /\ res' = Ret("corpus_filter", "ok", "", << >>)
  /\ UNCHANGED << storeVars, _tokenizer_id, _vectorizer_id, _model_id, selected >>

\* list(output.get_date_filtered_data(field_to_get, start, end))
date_filtered(field_to_get, start, end) ==
  LET g == get_date_filtered_data(corpus, field_to_get, start, end, "year")
  IN /\ res' = RetArg("get_date_filtered_data",
                      IF g.err = "" THEN "ok" ELSE g.err, field_to_get,
                      IF g.err = "" THEN g.vals ELSE << >>, << start, end >>)
     /\ UNCHANGED << storeVars, projectVars >>

(***************************************************************************)
(* Persisting and restoring the store (out_memory.py)                      *)
(***************************************************************************)
\* InMemoryOutput.__init__
InMemoryOutput__init__(iterable, hf, tokenized_corpora, vectorized_corpora, modeled_corpora) ==
  LET r == IF Truthy(iterable)
           THEN import_from_iterable(DictCorpus(EmptyDict), Unset,
                                     IterItems(iterable), hf)
           ELSE [corpus |-> DictCorpus(EmptyDict), hash_field |-> Unset,
                 err |-> ""]
  IN [corpus |-> r.corpus, hash_field |-> r.hash_field,
      tokenized_corpora |-> tokenized_corpora,
      vectorized_corpora |-> vectorized_corpora,
      modeled_corpora |-> modeled_corpora,
      err |-> r.err]

\* the saved_data of InMemoryOutput.save
saved_data ==
  [iterable |-> corpus, hash_field |-> hash_field,
   modeled_corpora |-> tables["modeled_corpora"],
   vectorized_corpora |-> tables["vectorized_corpora"],
   tokenized_corpora |-> tables["tokenized_corpora"]]

\* the store as save() sees it
StoreFields ==
  [corpus |-> corpus, hash_field |-> hash_field,
   tokenized_corpora |-> tables["tokenized_corpora"],
   vectorized_corpora |-> tables["vectorized_corpora"],
   modeled_corpora |-> tables["modeled_corpora"], err |-> ""]

\* save(filename), then InMemoryOutput(**saved_data)
save_and_restore ==
  IF hash_field = Unset
  THEN Fail("save", "AttributeError", "")
  ELSE LET sd == saved_data
           new == InMemoryOutput__init__(sd.iterable, sd.hash_field,
                                         sd.tokenized_corpora,
                                         sd.vectorized_corpora,
                                         sd.modeled_corpora)
       IN /\ res' = RetArg("restore", IF new.err = "" THEN "ok" ELSE new.err,
                           "", << >>, new)
          /\ UNCHANGED << storeVars, projectVars >>

(***************************************************************************)
(* The project and its store                                               *)
(***************************************************************************)
InitStore ==
  /\ corpus = DictCorpus(EmptyDict)
  /\ hash_field = Unset
  /\ tables = [a \in TableAttrs |-> EmptyDict]
  /\ assigned = [a \in TableAttrs |-> EmptyDict]

InitProject ==
  /\ corpus_filter = None
  /\ _tokenizer_id = None
  /\ _vectorizer_id = None
  /\ _model_id = None
  /\ selected = [selected_vectorizer |-> Unset, selected_model |-> Unset]

InitCalls == callA = NoCall /\ callB = NoCall

\* the vectorizers registered when the vectorizers package is imported
InitRegistry == registered_vectorizers = [n \in VectorizerNames |-> "f"]

\* no with block entered, nothing imported, no filtered view requested
NoView == [state |-> "none", field |-> "", filter |-> NoFilter, d |-> EmptyDict,
           keys |-> << >>, out |-> << >>, err |-> ""]
ViewNames == { "A", "B" }
OutsideScope == [pc |-> "outside", calls |-> << >>, error |-> ""]

InitExt ==
  /\ scope = OutsideScope
  /\ imported = << >>
  /\ views = [n \in ViewNames |-> NoView]

Init ==
  /\ InitStore /\ InitProject /\ InitCalls /\ InitRegistry /\ InitExt
  /\ res = Ret("__init__", "ok", "", << >>)

\* fingerprints a caller can name in select_* and visualize
SelectIds ==
  { TokenizeId("simple", << >>), VectorizeId("tfidf", << >>), ModelId("lda", << >>) }

ReadInput == (\E src \in Sources : read_input(src)) /\ UNCHANGED << fpVars, regVars, extVars >>
Import ==
  /\ \E items \in Batches, f \in { None, "id" } : import(items, f)
  /\ UNCHANGED << fpVars, regVars, extVars >>
SetCorpusFilter ==
  /\ \E f \in { None, "text" } : set_corpus_filter(f)
  /\ UNCHANGED << fpVars, regVars, extVars >>
Tokenize ==
  /\ \E m \in StageMethods, kw \in StageKwargs : tokenize(m, kw)
  /\ UNCHANGED << fpVars, regVars, extVars >>
Transform ==
  /\ \E m \in StageMethods, kw \in StageKwargs : transform(m, kw)
  /\ UNCHANGED << fpVars, regVars, extVars >>
Vectorize ==
  /\ \E m \in { "tfidf", "nope" }, kw \in StageKwargs : vectorize(m, kw)
  /\ UNCHANGED << fpVars, regVars, extVars >>
RunModel ==
  /\ \E m \in { "lda", "nope" }, kw \in StageKwargs : run_model(m, kw)
  /\ UNCHANGED << fpVars, regVars, extVars >>
Visualize ==
  /\ \E id \in SelectIds \cup { None } : visualize(id, << >>)
  /\ UNCHANGED << fpVars, regVars, extVars >>
SelectTokenizedData ==
  /\ \E id \in SelectIds : select_tokenized_data(id)
  /\ UNCHANGED << fpVars, regVars, extVars >>
SelectVectorizedData ==
  /\ \E id \in SelectIds : select_vectorized_data(id)
  /\ UNCHANGED << fpVars, regVars, extVars >>
SelectModelData ==
  /\ \E id \in SelectIds : select_model_data(id)
  /\ UNCHANGED << fpVars, regVars, extVars >>
ReadProperty ==
  /\ \E name \in { "tokenized_data", "vectorized_data", "model_output" } :
       read_property(name)
  /\ UNCHANGED << fpVars, regVars, extVars >>
GetDateFilteredData ==
  /\ \E field \in { "text", "id" },
        range \in { << 2000, 2005 >>, << 2006, 2010 >>, << 2000, 2010 >> } :
       date_filtered(field, range[1], range[2])
  /\ UNCHANGED << fpVars, regVars, extVars >>
SaveAndRestore == save_and_restore /\ UNCHANGED << fpVars, regVars, extVars >>

Next ==
  \/ ReadInput \/ Import \/ SetCorpusFilter
  \/ Tokenize \/ Transform \/ Vectorize \/ RunModel \/ Visualize
  \/ SelectTokenizedData \/ SelectVectorizedData \/ SelectModelData
  \/ ReadProperty \/ GetDateFilteredData \/ SaveAndRestore

Spec == Init /\ [][Next]_vars

(***************************************************************************)
(* Two stage invocations of one stage kind and their fingerprints          *)
(***************************************************************************)
InitFp ==
  /\ InitStore /\ InitProject /\ InitRegistry /\ InitExt
  /\ res = Ret("__init__", "ok", "", << >>)
  /\ \E stage \in StageKinds :
       /\ callA \in FpInputs(stage)
       /\ callB \in FpInputs(stage)

FingerprintA ==
  /\ ~callA.done
  /\ callA' = Fingerprinted(callA)
  /\ UNCHANGED << storeVars, projectVars, res, callB, regVars, extVars >>

FingerprintB ==
  /\ ~callB.done
  /\ callB' = Fingerprinted(callB)
  /\ UNCHANGED << storeVars, projectVars, res, callA, regVars, extVars >>

NextFp == FingerprintA \/ FingerprintB

SpecFp == InitFp /\ [][NextFp]_vars

(***************************************************************************)
(* The store's tables on their own: assignments and reads                  *)
(***************************************************************************)
\* what the lazy sequences of the model yield, in order
Stream == << "cat", "dog", "emu", "fish" >>

\* the values assigned to a table: lists, generators (which may raise while
\* they are consumed) and other one-shot iterators
AssignedValues ==
  { Value(k, SubSeq(Stream, 1, n), "") :
      k \in { "list", "generator", "iter" }, n \in 0..MaxLen }
    \cup { Value("generator", SubSeq(Stream, 1, n), "ValueError") : n \in 0..MaxLen }

StoreKeys == { TokenizeId("simple", << >>) }

\* store.<table>[key] = value
store_setitem(attr, key, value) ==
  LET set == GreedyDict__setitem__(tables[attr], key, value)
  IN IF set.err # ""
     THEN /\ tables' = [tables EXCEPT ![attr] = set.d]
          /\ res' = RetArg("setitem", set.err, key, << >>, attr)
          /\ UNCHANGED << corpus, hash_field, assigned >>
     ELSE /\ tables' = [tables EXCEPT ![attr] = set.d]
          /\ assigned' = [assigned EXCEPT ![attr] =
                            DictSet(@, key, [oneshot |-> value.kind # "list",
                                             vals |-> value.vals])]
          /\ res' = RetArg("setitem", "ok", key, << >>, attr)
          /\ UNCHANGED << corpus, hash_field >>

\* list(store.<table>[key])
store_read(attr, key) ==
  LET r == ReadAll(tables[attr][key])
  IN /\ tables' = [tables EXCEPT ![attr][key] = r.left]
     /\ res' = RetArg("read", "ok", key, r.seen, attr)
     /\ UNCHANGED << corpus, hash_field, assigned >>

StoreSetItem ==
  /\ \E attr \in StoreTables, key \in StoreKeys, value \in AssignedValues :
       store_setitem(attr, key, value)
  /\ UNCHANGED << projectVars, fpVars, regVars, extVars >>

StoreRead ==
  /\ \E attr \in StoreTables : \E key \in DOMAIN tables[attr] :
       store_read(attr, key)
  /\ UNCHANGED << projectVars, fpVars, regVars, extVars >>

NextStore == StoreSetItem \/ StoreRead

SpecStore == Init /\ [][NextStore]_vars

(***************************************************************************)
(* The vectorizer registry on its own                                      *)
(***************************************************************************)
\* _base_register_decorator(registered_vectorizers, func)
register(name, fn) ==
  IF name \in DOMAIN registered_vectorizers
  THEN /\ res' = RetArg("register", "DuplicateNameError", name, << >>, fn)
       /\ UNCHANGED registered_vectorizers
  ELSE /\ registered_vectorizers' = DictSet(registered_vectorizers, name, fn)
       /\ res' = RetArg("register", "ok", name, << >>, fn)

\* vectorize(corpus, method=name)
registry_vectorize(data, method) ==
  LET call == vectorizers_vectorize(data, method, << >>)
  IN /\ res' = RetArg("vectorize", IF call.err = "" THEN "ok" ELSE call.err,
                      method, call.out.vals, call.fn)
     /\ UNCHANGED registered_vectorizers

InitReg ==
  /\ InitStore /\ InitProject /\ InitCalls /\ InitExt
  /\ registered_vectorizers = EmptyDict
  /\ res = Ret("__init__", "ok", "", << >>)

Register ==
  /\ \E name \in VectorizerNames, fn \in VectorizerFns : register(name, fn)
  /\ UNCHANGED << storeVars, projectVars, fpVars, extVars >>

RegistryVectorize ==
  /\ \E method \in VectorizerNames, n \in 0..MaxLen :
       registry_vectorize(Value("list", SubSeq(Stream, 1, n), ""), method)
  /\ UNCHANGED << storeVars, projectVars, fpVars, extVars >>

NextReg == Register \/ RegistryVectorize

SpecReg == InitReg /\ [][NextReg]_vars

(***************************************************************************)
(* The project as a context manager (project.py)                           *)
(***************************************************************************)
\* what output.persist() can do: return, or raise while writing
PersistOutcomes == { "", "IOError" }

\* what the body of the with block can end with: falling off its end, or an
\* exception
BodyOutcomes == { "", "RuntimeError" }

\* TopikProject.__enter__: pass
TopikProject__enter__ ==
  /\ scope.pc = "outside"
  /\ scope' = [scope EXCEPT !.pc = "inside"]
  /\ res' = Ret("__enter__", "ok", "", << >>)

\* TopikProject.__exit__(exc_type, exc_val, exc_tb): the two calls in a row;
\* it returns None, so an exception of the body is raised again
TopikProject__exit__(exc_type, persist) ==
  /\ scope.pc = "inside"
  /\ IF persist # ""
     THEN /\ scope' = [pc |-> "exited", calls |-> << "persist" >>,
                       error |-> persist]
          /\ res' = Ret("__exit__", persist, "", << >>)
     ELSE /\ scope' = [pc |-> "exited", calls |-> << "persist", "close" >>,
                       error |-> exc_type]
          /\ res' = Ret("__exit__", IF exc_type = "" THEN "ok" ELSE exc_type,
                        "", << >>)

ScopeEnter ==
  /\ TopikProject__enter__
  /\ UNCHANGED << storeVars, projectVars, fpVars, regVars, imported, views >>

\* statements of the body
ScopeBody ==
  /\ scope.pc = "inside"
  /\ \/ \E items \in Batches, f \in { None, "id" } : import(items, f)
     \/ \E f \in { None, "text" } : set_corpus_filter(f)
     \/ \E m \in StageMethods, kw \in StageKwargs : tokenize(m, kw)
  /\ UNCHANGED << fpVars, regVars, extVars >>

ScopeExit ==
  /\ \E exc_type \in BodyOutcomes, persist \in PersistOutcomes :
       TopikProject__exit__(exc_type, persist)
  /\ UNCHANGED << storeVars, projectVars, fpVars, regVars, imported, views >>

NextScope == ScopeEnter \/ ScopeBody \/ ScopeExit

SpecScope == Init /\ [][NextScope]_vars

(***************************************************************************)
(* The corpus on its own: imports into one store, and new stores           *)
(***************************************************************************)
\* a document whose id is that of Doc1
Doc4 == [id |-> IntVal(1), text |-> StrVal("emu"), year |-> IntVal(2005)]

\* the elements of the iterables: documents and a plain string
CorpusItems == { DictItem(d) : d \in { Doc1, Doc2, Doc4 } } \cup { StrItem("emu") }

CorpusBatches == UNION { [1..n -> CorpusItems] : n \in 1..MaxBatch }

\* store.import_from_iterable(items, field_to_hash); the history keeps each
\* item of a call that returned, with the field it was hashed by
store_import(items, field_to_hash) ==
  LET r == import_from_iterable(corpus, hash_field, items, field_to_hash)
  IN /\ corpus' = r.corpus
     /\ hash_field' = r.hash_field
     /\ imported' = IF r.err # "" THEN imported
                    ELSE imported \o [i \in 1..Len(items) |->
                                        [item |-> items[i], field |-> field_to_hash]]
     /\ res' = Ret("import_from_iterable", IF r.err = "" THEN "ok" ELSE r.err,
                   field_to_hash, << >>)

\* InMemoryOutput(iterable=items, hash_field=hf): a new store
new_store(items, hf) ==
  LET new == InMemoryOutput__init__(RawCorpus(items), hf, EmptyDict, EmptyDict, EmptyDict)
  IN /\ res' = RetArg("InMemoryOutput", IF new.err = "" THEN "ok" ELSE new.err,
                      hf, << >>, [iterable |-> items, store |-> new])
     /\ UNCHANGED << corpus, hash_field, imported >>

StoreImport ==
  /\ \E items \in CorpusBatches, f \in { None, "id", "text" } :
       /\ Len(imported) + Len(items) <= MaxImported
       /\ store_import(items, f)
  /\ UNCHANGED << tables, assigned, projectVars, fpVars, regVars, scope, views >>

\* the iterables a new store is made from: an empty list and one-item lists
NewStoreIterables == { << >> } \cup { << DictItem(d) >> : d \in { Doc1, Doc2 } }

NewStore ==
  /\ \E items \in NewStoreIterables, hf \in { None, "id" } :
       new_store(items, hf)
  /\ UNCHANGED << tables, assigned, projectVars, fpVars, regVars, scope, views >>

NextImport == StoreImport \/ NewStore

SpecImport == Init /\ [][NextImport]_vars

(***************************************************************************)
(* Generator objects of get_filtered_data, consumed step by step           *)
(***************************************************************************)
\* store.get_filtered_data(field_to_get, filter): calling a generator
\* function runs none of its body and returns a new generator object
new_view(field_to_get, filter) ==
  [state |-> "created", field |-> field_to_get, filter |-> filter,
   d |-> EmptyDict, keys |-> << >>, out |-> << >>, err |-> ""]

\* the for loop of get_filtered_data from its position up to the next yield,
\* the end of the list, or an exception
RECURSIVE RunToYield(_)
RunToYield(v) ==
  IF v.keys = << >> THEN [v EXCEPT !.state = "done"]
  ELSE LET k == Head(v.keys)
           doc == v.d[k]
           t == IF v.filter.kind = "none" THEN [ok |-> TRUE, err |-> ""]
                ELSE EvalFilter(v.filter, doc)
       IN IF t.err # ""
          THEN [v EXCEPT !.state = "raised", !.err = t.err, !.keys = << >>]
          ELSE IF ~t.ok THEN RunToYield([v EXCEPT !.keys = Tail(v.keys)])
          ELSE IF v.field \notin DOMAIN doc._source
          THEN [v EXCEPT !.state = "raised", !.err = "KeyError", !.keys = << >>]
          ELSE [v EXCEPT !.keys = Tail(v.keys),
                         !.out = Append(v.out, << k, doc._source[v.field] >>)]

\* the first next() runs the body from its start: self.corpus.items() is the
\* list of the (id, document) pairs the corpus holds at that moment
Started(v) ==
  IF v.state # "created" THEN v
  ELSE IF corpus.kind # "dict"
  THEN [v EXCEPT !.state = "raised", !.err = "AttributeError"]
  ELSE [v EXCEPT !.state = "running", !.d = corpus.d,
                 !.keys = KeysInOrder(DOMAIN corpus.d)]

\* a faulty variant of next(): the entry that is yielded is taken out of
\* the corpus
GeneratorNextPops(n) ==
  LET v == Started(views[n])
      w == IF v.state = "running" THEN RunToYield(v) ELSE v
  IN [views |-> [views EXCEPT ![n] = w],
      corpus |-> IF Len(w.out) > Len(v.out)
                 THEN DictCorpus([k \in DOMAIN corpus.d \ { Head(v.keys) } |->
                                    corpus.d[k]])
                 ELSE corpus]

\* next(view): the generator objects and the corpus afterwards
generator_next(n) ==
  LET v == Started(views[n])
  IN [views |-> [views EXCEPT ![n] = IF v.state = "running" THEN RunToYield(v)
                                     ELSE v],
      corpus |-> corpus]

\* the documents imported in this specification: all carry text and year
ViewBatches ==
  UNION { [1..n -> { DictItem(d) : d \in { Doc1, Doc2, Doc4 } }] : n \in 1..MaxBatch }

ViewFilters == { NoFilter, DateFilter(2000, 2005, "year") }

ViewImport ==
  /\ \E items \in ViewBatches : import(items, "id")
  /\ UNCHANGED << fpVars, regVars, extVars >>

\* view = store.get_filtered_data("text", filter), or
\* view = store.get_date_filtered_data("text", 2000, 2005)
ViewCall ==
  /\ \E n \in ViewNames, filter \in ViewFilters :
       /\ views[n].state \in { "none", "done", "raised" }
       /\ views' = [views EXCEPT ![n] = new_view("text", filter)]
       /\ res' = Ret("get_filtered_data", "ok", n, << >>)
  /\ UNCHANGED << storeVars, projectVars, fpVars, regVars, scope, imported >>

ViewNext ==
  /\ \E n \in ViewNames :
       /\ views[n].state \in { "created", "running" }
       /\ views' = generator_next(n).views
       /\ corpus' = generator_next(n).corpus
       /\ res' = Ret("next", IF views'[n].err = "" THEN "ok" ELSE views'[n].err,
                     n, << >>)
  /\ UNCHANGED << hash_field, tables, assigned, projectVars, fpVars, regVars,
                  scope, imported >>

NextViews == ViewImport \/ ViewCall \/ ViewNext

SpecViews == Init /\ [][NextViews]_vars

(***************************************************************************)
(* Properties                                                              *)
(***************************************************************************)
StageOps == { "tokenize", "transform", "vectorize", "run_model" }

pointers == << _tokenizer_id, _vectorizer_id, _model_id >>

\* one select_* call (the step that sets res to op): the id is a key of the
\* table the property reads and the pointer moves to it, or the call raises
\* the not-found ValueError and the pointer stays
SelectStep(op, attr, before, after) ==
  res'.op = op =>
    IF res'.id \in DOMAIN tables[attr]
    THEN res'.status = "ok" /\ after = res'.id
    ELSE res'.status = "ValueError" /\ after = before

\* C1: every select_*_data(id) call either succeeds, with id a key of its
\* artifact table and the data property then reading the artifact under id
\* (the pointer is id), or fails with the not-found error and leaves the
\* selection as it was.
C1_SelectionValidity ==
  [][ /\ SelectStep("select_tokenized_data", "tokenized_data",
                    _tokenizer_id, _tokenizer_id')
      /\ SelectStep("select_vectorized_data", "vectorized_data",
                    _vectorizer_id, _vectorizer_id')
      /\ SelectStep("select_model_data", "model_data", _model_id, _model_id')
    ]_vars

\* C2: in every reachable state each selection pointer is None or a key of
\* the artifact table its data property reads from.
C2_PointersValid ==
  /\ _tokenizer_id \in { None } \cup DOMAIN tables["tokenized_data"]
  /\ _vectorizer_id \in { None } \cup DOMAIN tables["vectorized_data"]
  /\ _model_id \in { None } \cup DOMAIN tables["model_data"]

\* C3: a one-shot lazy sequence assigned under a key is consumed by the
\* assignment: what is stored yields the sequence's values in their order
\* when read and is not changed by being read, so every read of the key
\* returns those values.
C3_Materialized ==
  /\ \A a \in StoreTables : \A k \in DOMAIN tables[a] :
       assigned[a][k].oneshot =>
         /\ ReadAll(tables[a][k]).seen = assigned[a][k].vals
         /\ ReadAll(tables[a][k]).left = tables[a][k]
  /\ (res.op = "read" /\ assigned[res.arg][res.id].oneshot)
       => res.value = assigned[res.arg][res.id].vals

\* the table and the pointer of a stage
StageTable(op) ==
  CASE op \in { "tokenize", "transform" } -> "token_data"
    [] op = "vectorize" -> "vectorized_data"
    [] op = "run_model" -> "model_data"

\* C4: a stage invocation that raises leaves every table and the three
\* pointers as they were; one that returns has stored the stage function's
\* whole output as a list under its fingerprint and moved the stage's
\* pointer to the fingerprint.
C4_StageAtomic ==
  [][ res'.op \in StageOps =>
        IF res'.status # "ok"
        THEN tables' = tables /\ pointers' = pointers
        ELSE /\ res'.id \in DOMAIN tables'[StageTable(res'.op)]
             /\ tables'[StageTable(res'.op)][res'.id].kind = "list"
             /\ res'.op = "tokenize" =>
                  /\ _tokenizer_id' = res'.id
                  /\ \E m \in StageMethods, kw \in StageKwargs :
                       /\ TokenizeId(m, kw) = res'.id
                       /\ tables'["token_data"][res'.id].vals =
                            tokenizers_tokenize(filtered_corpus, m, kw).out.vals
             /\ res'.op = "vectorize" => _vectorizer_id' = res'.id
             /\ res'.op = "run_model" => _model_id' = res'.id
    ]_vars

\* C4 witness: a tokenize call raised while consuming the tokenizer's output,
\* after two documents were read, with an artifact of an earlier call under
\* the same fingerprint still in place
C4_Witness ==
  /\ res.op = "tokenize" /\ res.status = "KeyError"
  /\ res.id \in DOMAIN tables["token_data"]
  /\ Len(tables["token_data"][res.id].vals) = 2
  /\ _tokenizer_id = res.id
  /\ Cardinality(DOMAIN corpus.d) = 3

\* C5: after a successful tokenize the tokenizer's output is stored under
\* "tk_" + method + "_" + params, the tokenizer pointer is that fingerprint
\* and the tokenized_data property returns the stored artifact.
C5_TokenizeStores ==
  (res.op = "tokenize" /\ res.status = "ok") =>
     /\ _tokenizer_id = res.id
     /\ res.id \in DOMAIN tables["token_data"]
     /\ tokenized_data.err = ""
     /\ tokenized_data.cell = tables["token_data"][res.id]

\* the parameter string written out name by name: "k=v" for each keyword
\* present, in the order of the names, with "_" between two of them
RECURSIVE ParamsFrom(_, _)
ParamsFrom(i, dict) ==
  IF i > Len(ParamNames) THEN ""
  ELSE LET here == { p \in dict : p[1] = ParamNames[i] }
           rest == ParamsFrom(i + 1, { p \in dict : KeyRank(p[1]) > i })
           this == IF here = {} THEN ""
                   ELSE LET p == CHOOSE p \in here : TRUE
                        IN p[1] \o "=" \o Format(p[2])
       IN IF this = "" THEN rest
          ELSE IF { p \in dict : KeyRank(p[1]) > i } = {} THEN this
          ELSE this \o "_" \o rest

\* C6: the parameter string and the fingerprint do not depend on the order
\* the keyword parameters are given in, and the string is the key=value
\* pairs in key order joined by "_" with no trailing delimiter.
C6_OrderIndependent ==
  /\ \A c \in { callA, callB } :
       c.done => c.params = ParamsFrom(1, KwargsDict(c.kwargs))
  /\ (/\ callA.done /\ callB.done
      /\ callA.method = callB.method
      /\ KwargsDict(callA.kwargs) = KwargsDict(callB.kwargs))
       => callA.params = callB.params /\ callA.id = callB.id

\* C6 witness: the same two keyword parameters given in two orders
C6_Witness ==
  /\ callA.done /\ callB.done
  /\ callA.method = callB.method
  /\ Len(callA.kwargs) = 2
  /\ callA.kwargs # callB.kwargs
  /\ KwargsDict(callA.kwargs) = KwargsDict(callB.kwargs)
  /\ KeyRank(callA.kwargs[1][1]) > KeyRank(callA.kwargs[2][1])

\* C7: two invocations of one stage kind that differ in the method name or
\* in the keyword parameters get different fingerprints.
C7_Injective ==
  (/\ callA.done /\ callB.done
   /\ callA.stage = callB.stage
   /\ \/ callA.method # callB.method
      \/ KwargsDict(callA.kwargs) # KwargsDict(callB.kwargs))
    => callA.id # callB.id

\* the (id, value) pairs of the corpus entries whose year is in [start, end]
InRange(field_to_get, start, end) ==
  { << k, corpus.d[k]._source[field_to_get] >> :
      k \in { k \in DOMAIN corpus.d :
                /\ start <= corpus.d[k]._source.year.n
                /\ corpus.d[k]._source.year.n <= end } }

\* C8: over a corpus whose documents carry an int year, the date-filtered
\* view yields exactly one (id, value) pair for each entry with
\* start <= year <= end and nothing else.
C8_FilterExact ==
  (/\ res.op = "get_date_filtered_data"
   /\ corpus.kind = "dict"
   /\ \A k \in DOMAIN corpus.d :
        /\ { "year", res.id } \subseteq DOMAIN corpus.d[k]._source
        /\ corpus.d[k]._source.year.t = "int")
    => /\ res.status = "ok"
       /\ Range(res.value) = InRange(res.id, res.arg[1], res.arg[2])
       /\ Len(res.value) = Cardinality(InRange(res.id, res.arg[1], res.arg[2]))

\* C9: the store constructed from the saved fields has the corpus, the hash
\* field and the three tables of the store that was saved.
C9_RoundTrip ==
  res.op = "restore" => res.status = "ok" /\ res.arg = StoreFields

\* C10: a function registered under a name through the module-level
\* registry is the one vectorize(corpus, method=name) looks up and calls.
C10_SharedRegistry ==
  (res.op = "vectorize" /\ res.id \in DOMAIN registered_vectorizers)
    => /\ res.status = "ok"
       /\ res.arg = registered_vectorizers[res.id]

\* C11: when the with block has been left, on whichever path, persist and
\* then close have been called on the store, in that order.
C11_PersistThenClose ==
  scope.pc = "exited" => scope.calls = << "persist", "close" >>

\* C12: after read_input has returned the corpus is a mapping built by
\* import_from_iterable: the hash field is recorded, every entry is keyed by
\* the hash of its hash field, and the filtered view can be read from it.
C12_ReadInputMaterialized ==
  (res.op = "read_input" /\ res.status = "ok") =>
     /\ corpus.kind = "dict"
     /\ hash_field \notin { Unset, None }
     /\ \A k \in DOMAIN corpus.d :
          k = hash(corpus.d[k]._source[hash_field])
     /\ get_filtered_data(corpus, hash_field, NoFilter).err = ""

\* the pointer an operation dereferences
Upstream(op) ==
  CASE op \in { "tokenized_data", "transform", "vectorize" } -> _tokenizer_id
    [] op \in { "vectorized_data", "run_model" } -> _vectorizer_id
    [] op \in { "model_output", "visualize" } -> _model_id

DerefOps ==
  { "tokenized_data", "vectorized_data", "model_output",
    "transform", "vectorize", "run_model", "visualize" }

\* C13: reading a data property, or calling transform, vectorize, run_model
\* or visualize without a model id, while the pointer it goes through is
\* unset raises the "no data selected" error and changes no table and no
\* pointer.
C13_NoDataSelected ==
  [][ (/\ res'.op \in DerefOps
       /\ Upstream(res'.op) = None
       /\ res'.op = "visualize" => res'.id = None)
      => /\ res'.status = "NoDataSelectedError"
         /\ tables' = tables
         /\ pointers' = pointers
    ]_vars

\* C14: import_from_iterable with no hash field, and InMemoryOutput given an
\* iterable and no hash field, raise the configuration error (ValueError),
\* whatever the iterable holds; the corpus and the recorded hash field of
\* the store stay as they were, and the new store has an empty corpus.
C14_HashFieldRequired ==
  [][ /\ (res'.op = "import_from_iterable" /\ res'.id = None)
         => /\ res'.status = "ValueError"
            /\ corpus' = corpus
            /\ hash_field' = hash_field
      /\ (res'.op = "InMemoryOutput" /\ res'.id = None)
         => /\ res'.status = "ValueError"
            /\ res'.arg.store.corpus = DictCorpus(EmptyDict)
            /\ res'.arg.store.hash_field = Unset
    ]_vars

\* the document an imported item stands for, and its identifier
DocOf(h) == IF h.item.kind = "str" THEN (h.field :> h.item.v) ELSE h.item.d
Ident(h) == hash(DocOf(h)[h.field])

\* the last import with identifier k
LastWith(k) ==
  CHOOSE i \in 1..Len(imported) :
    /\ Ident(imported[i]) = k
    /\ \A j \in (i + 1)..Len(imported) : Ident(imported[j]) # k

\* C19: after any sequence of imports the corpus has exactly one entry for
\* each identifier hash(document[hash_field]) of an imported document, and
\* the entry holds the document imported last under that identifier.
C19_LastImportWins ==
  /\ corpus.kind = "dict"
  /\ DOMAIN corpus.d = { Ident(imported[i]) : i \in 1..Len(imported) }
  /\ \A k \in DOMAIN corpus.d :
       corpus.d[k] = [_source |-> DocOf(imported[LastWith(k)])]

\* C19 witness: three imports, the third with the identifier of the first
\* and another document, the second under another identifier
C19_Witness ==
  /\ Len(imported) = 3
  /\ Ident(imported[1]) = Ident(imported[3])
  /\ DocOf(imported[1]) # DocOf(imported[3])
  /\ Ident(imported[2]) # Ident(imported[1])
  /\ Cardinality(DOMAIN corpus.d) = 2

\* the content field the corpus was read with
ContentField == "text"

\* the (id, document[content field]) pairs of all corpus entries
AllDocuments ==
  { << k, corpus.d[k]._source[ContentField] >> : k \in DOMAIN corpus.d }

\* C15: with no corpus filter set, a tokenize call hands the tokenizer the
\* (id, document[content_field]) pair of every corpus entry, and
\* get_filtered_corpus_iterator(None) yields what filtered_corpus yields.
C15_TokenizeInput ==
  [][ (/\ res'.op = "tokenize"
       /\ corpus_filter = None
       /\ corpus.kind = "dict"
       /\ \A k \in DOMAIN corpus.d : ContentField \in DOMAIN corpus.d[k]._source)
      => /\ filtered_corpus.err = ""
         /\ Range(filtered_corpus.vals) = AllDocuments
         /\ Len(filtered_corpus.vals) = Cardinality(AllDocuments)
         /\ get_filtered_corpus_iterator(None) = filtered_corpus
    ]_vars

\* the fingerprint of a transform chained onto the fingerprint p
TransformId(p, method, kw) ==
  p \o "_xform_" \o method \o "_" \o _get_parameters_string(kw)

\* C16: transform(method, **kwargs) with a registered method, called while
\* the tokenizer pointer is p, returns; the tokenized table then has an
\* artifact under p + "_xform_" + method + "_" + params, every artifact
\* stored before is still there, and the tokenizer pointer is the new key.
C16_TransformChains ==
  [][ (/\ res'.op = "transform"
       /\ _tokenizer_id # None
       /\ res'.arg[1] \in registered_transformers)
      => /\ res'.status = "ok"
         /\ TransformId(_tokenizer_id, res'.arg[1], res'.arg[2])
              \in DOMAIN tables'["tokenized_data"]
         /\ \A a \in TableAttrs : \A k \in DOMAIN tables[a] :
              k \in DOMAIN tables'[a] /\ tables'[a][k] = tables[a][k]
         /\ _tokenizer_id' =
              TransformId(_tokenizer_id, res'.arg[1], res'.arg[2])
    ]_vars

\* C17: select_tokenized_data(id) with id the fingerprint of a stored
\* tokenize artifact moves the tokenizer pointer to id, and a vectorize call
\* reads the artifact stored under the fingerprint the pointer holds at the
\* call; likewise select_vectorized_data / run_model and select_model_data /
\* visualize.
C17_ReadThrough ==
  [][ /\ (res'.op = "select_tokenized_data"
            /\ res'.id \in DOMAIN tables["token_data"])
          => res'.status = "ok" /\ _tokenizer_id' = res'.id
      /\ (res'.op = "select_vectorized_data"
            /\ res'.id \in DOMAIN tables["vectorized_data"])
          => res'.status = "ok" /\ _vectorizer_id' = res'.id
      /\ (res'.op = "select_model_data"
            /\ res'.id \in DOMAIN tables["model_data"])
          => res'.status = "ok" /\ _model_id' = res'.id
      /\ (res'.op = "vectorize"
            /\ _tokenizer_id \in DOMAIN tables["token_data"])
          => /\ tokenized_data.err = ""
             /\ tokenized_data.cell = tables["token_data"][_tokenizer_id]
      /\ (res'.op = "run_model"
            /\ _vectorizer_id \in DOMAIN tables["vectorized_data"])
          => vectorized_data.cell = tables["vectorized_data"][_vectorizer_id]
      /\ (res'.op = "visualize" /\ res'.status = "ok" /\ res'.id = None)
          => res'.value = tables["model_data"][_model_id].vals
    ]_vars

\* the tables of a set of attributes
TablesOf(t, attrs) == [a \in attrs |-> t[a]]

TokenizedAttrs == { "token_data", "tokenized_data", "tokenized_corpora" }
VectorizedAttrs == { "vectorized_data", "vectorized_corpora" }
ModeledAttrs == { "model_data", "modeled_corpora" }

\* C18: tokenize and transform leave the vectorized and modeled tables and
\* the vectorizer and model pointers as they were; vectorize leaves the
\* corpus, the tokenized and modeled tables and the tokenizer and model
\* pointers; run_model leaves all but the modeled table and the model
\* pointer; visualize leaves the corpus, every table and every pointer.
C18_Frame ==
  [][ /\ res'.op \in { "tokenize", "transform" }
          => /\ TablesOf(tables', VectorizedAttrs \cup ModeledAttrs)
                  = TablesOf(tables, VectorizedAttrs \cup ModeledAttrs)
             /\ _vectorizer_id' = _vectorizer_id
             /\ _model_id' = _model_id
      /\ res'.op = "vectorize"
          => /\ corpus' = corpus
             /\ TablesOf(tables', TokenizedAttrs \cup ModeledAttrs)
                  = TablesOf(tables, TokenizedAttrs \cup ModeledAttrs)
             /\ _tokenizer_id' = _tokenizer_id
             /\ _model_id' = _model_id
      /\ res'.op = "run_model"
          => /\ corpus' = corpus
             /\ TablesOf(tables', TokenizedAttrs \cup VectorizedAttrs)
                  = TablesOf(tables, TokenizedAttrs \cup VectorizedAttrs)
             /\ _tokenizer_id' = _tokenizer_id
             /\ _vectorizer_id' = _vectorizer_id
      /\ res'.op = "visualize"
          => corpus' = corpus /\ tables' = tables /\ pointers' = pointers
    ]_vars

\* C18 witness: tokenize was run again with other parameters and returned:
\* two non-empty artifacts are stored and the pointer is at the second
C18_Witness ==
  /\ res.op = "tokenize" /\ res.status = "ok"
  /\ Cardinality(DOMAIN tables["token_data"]) = 2
  /\ tables["token_data"][res.id].vals # << >>
  /\ _tokenizer_id = res.id

\* the (id, value) pairs of the entries of d that pass the filter
Matching(d, field, filter) ==
  { << k, d[k]._source[field] >> :
      k \in { k \in DOMAIN d :
                \/ filter.kind = "none"
                \/ /\ filter.start <= d[k]._source[filter.field].n
                   /\ d[k]._source[filter.field].n <= filter.end } }

\* C20: a call of get_filtered_data and a step of one of its generators
\* leave the corpus as it was and leave every other generator as it was; a
\* generator starts from all the entries the corpus holds at its first step,
\* whatever earlier generators have consumed, and when it is exhausted it
\* has yielded each matching (id, value) pair of those entries once and
\* nothing else.
C20_ViewsIndependent ==
  [][ /\ res'.op \in { "get_filtered_data", "next" }
          => /\ corpus' = corpus
             /\ \A m \in ViewNames \ { res'.id } : views'[m] = views[m]
      /\ (res'.op = "next" /\ views[res'.id].state = "created")
          => /\ views'[res'.id].d = corpus.d
             /\ Len(views'[res'.id].out) + Len(views'[res'.id].keys)
                  <= Cardinality(DOMAIN corpus.d)
      /\ \A n \in ViewNames :
           /\ views'[n].state # "raised"
           /\ views'[n].state = "done"
               => /\ Range(views'[n].out)
                       = Matching(views'[n].d, views'[n].field, views'[n].filter)
                  /\ Len(views'[n].out) = Cardinality(Range(views'[n].out))
    ]_vars

\* C20 witness: one generator was read to its end and yielded two pairs
\* while the other, over the same corpus, has yielded one pair of its two
C20_Witness ==
  /\ views["A"].state = "done" /\ Len(views["A"].out) = 2
  /\ views["B"].state = "running" /\ Len(views["B"].out) = 1
  /\ Len(views["B"].keys) = 1
  /\ views["A"].d = corpus.d /\ views["B"].d = corpus.d
  /\ res.op = "next" /\ res.id = "A"

====
